---- MODULE Spec2Model ----
(***************************************************************************)
(* A model of fresnel's geometry/attribute layer:                          *)
(*   - fresnel.util.array, the view that brackets every access to a        *)
(*     backend buffer with map/unmap and signals the owning geometry on    *)
(*     every write (src/fresnel/util.py);                                  *)
(*   - the primitive geometry classes and Box (src/fresnel/geometry.py).   *)
(*                                                                         *)
(* Numbers.  Every buffer element and every argument is a number in        *)
(* HALF-UNITS: the integer k stands for the number k/2.  So 1 is 0.5, 2 is *)
(* 1.0 and 4 is 2.0.  Sums and differences are the integers' own; a        *)
(* product is (a*b) \div 2 and a halving is a \div 2, and the inputs the   *)
(* specifications draw are chosen so that both divisions are exact.        *)
(*                                                                         *)
(* Arrays.  A numpy array is a record [shape, data]: data is the row-major *)
(* flattening.  None is the record with an empty shape and no data.        *)
(***************************************************************************)
EXTENDS Integers, Sequences, FiniteSets, TLC

VARIABLES
    geom,      \* the geometry objects: id -> [kind, N, buf, mapped, box,
               \*   vertices, enabled, removed]
    scene,     \* scene.geometry, the scene's list of geometry ids
    op,        \* the call that ran last: [name, g, attr, key, data, args, N]
    outcome,   \* how it ended: "ok" or the exception it raised
    log,       \* the backend calls it made, in order
    ret        \* what it returned

vars == <<geom, scene, op, outcome, log, ret>>

(***************************************************************************)
(* Bounds of the model.                                                    *)
(***************************************************************************)
MaxN == 2        \* instance count of the primitives the specifications build

(***************************************************************************)
(* numpy arrays                                                            *)
(***************************************************************************)
None == [shape |-> <<>>, data |-> <<>>]

Arr(shape, data) == [shape |-> shape, data |-> data]

Scalar(v) == Arr(<<>>, <<v>>)

RECURSIVE Size(_)
Size(shape) == IF shape = <<>> THEN 1 ELSE shape[1] * Size(Tail(shape))

Zeros(shape) == Arr(shape, [i \in 1..Size(shape) |-> 0])

Abs(k) == IF k < 0 THEN -k ELSE k

\* The spacing of float32 around k: the smallest power of two u with
\* |k| <= 2^24 * u (float32 has a 24 bit significand).
RECURSIVE Ulp(_, _)
Ulp(k, u) == IF Abs(k) <= (2^24) * u THEN u ELSE Ulp(k, 2 * u)

\* numpy's cast to float32: round to the nearest multiple of the spacing,
\* a tie to the multiple with an even significand.  (Float32AsInt is the
\* cast of a buffer wrongly typed as integer: it drops the half.)
Float32AsInt(k) == (k \div 2) * 2

Float32(k) ==
    LET u  == Ulp(k, 1)
        lo == (k \div u) * u
        hi == lo + u
    IN  IF k = lo THEN k
        ELSE IF k - lo < hi - k THEN lo
        ELSE IF k - lo > hi - k THEN hi
        ELSE IF (lo \div u) % 2 = 0 THEN lo ELSE hi

\* numpy.asarray(x, dtype=float32)
AsFloat32(a) == Arr(a.shape, [i \in 1..Len(a.data) |-> Float32(a.data[i])])

(***************************************************************************)
(* numpy broadcasting of an array of shape ds to the shape ts.             *)
(***************************************************************************)
RECURSIVE StripOnes(_, _)
StripOnes(ds, n) ==
    IF Len(ds) > n /\ ds[1] = 1 THEN StripOnes(Tail(ds), n) ELSE ds

PadOnes(ds, n) == [i \in 1..(n - Len(ds)) |-> 1] \o ds

CanBroadcast(ds0, ts) ==
    LET ds == StripOnes(ds0, Len(ts))
    IN  /\ Len(ds) <= Len(ts)
        /\ \A i \in 1..Len(ds) :
              LET d == ds[i]
                  t == ts[Len(ts) - Len(ds) + i]
              IN  d = t \/ d = 1

\* The flat index (from 0) in the source of the element at flat index t of
\* the target; ds is already padded to the target's rank.
RECURSIVE SrcIndex(_, _, _)
SrcIndex(t, ts, ds) ==
    IF ts = <<>> THEN 0
    ELSE LET n  == Len(ts)
             tl == ts[n]
             dl == ds[n]
             sc == IF dl = 1 THEN 0 ELSE t % tl
         IN  SrcIndex(t \div tl, SubSeq(ts, 1, n - 1), SubSeq(ds, 1, n - 1)) * dl + sc

Broadcast(a, ts) ==
    LET ds == PadOnes(StripOnes(a.shape, Len(ts)), Len(ts))
    IN  Arr(ts, [t \in 1..Size(ts) |-> a.data[SrcIndex(t - 1, ts, ds) + 1]])

(***************************************************************************)
(* Keys: a[i] is IntKey(i), a[lo:hi] is SliceKey(lo, hi), a[:] is AllKey   *)
(* and a[:, j] is ColKey(j).                                               *)
(***************************************************************************)
IntKey(i) == [kind |-> "int", a |-> i, b |-> 0]
SliceKey(lo, hi) == [kind |-> "slice", a |-> lo, b |-> hi]
AllKey == [kind |-> "all", a |-> 0, b |-> 0]
ColKey(j) == [kind |-> "col", a |-> j, b |-> 0]

\* Python's adjustment of one slice bound to a length n (step 1).
Clamp(i, n) ==
    LET j == IF i < 0 THEN i + n ELSE i
    IN  IF j < 0 THEN 0 ELSE IF j > n THEN n ELSE j

\* An integer index outside -n..n-1 is an IndexError; a slice never is.
KeyInRange(key, n) ==
    key.kind = "int" => (key.a >= -n /\ key.a < n)

\* First row selected and the number of rows selected, for a key in range.
KeyStart(key, n) ==
    CASE key.kind = "int" -> IF key.a < 0 THEN key.a + n ELSE key.a
      [] key.kind = "slice" -> Clamp(key.a, n)
      [] OTHER -> 0

KeyCount(key, n) ==
    CASE key.kind = "int" -> 1
      [] key.kind = "slice" ->
            IF Clamp(key.b, n) > Clamp(key.a, n)
            THEN Clamp(key.b, n) - Clamp(key.a, n) ELSE 0
      [] OTHER -> n

\* The shape of a[key]: an integer index drops the leading axis.
KeyShape(key, shape) ==
    IF key.kind = "int" THEN Tail(shape)
    ELSE IF key.kind = "col" THEN <<shape[1]>> \o Tail(Tail(shape))
    ELSE <<KeyCount(key, shape[1])>> \o Tail(shape)

\* a[:, j] of an array of two or more axes
Column(a, j) ==
    LET m     == a.shape[2]
        inner == Size(Tail(Tail(a.shape)))
    IN  Arr(<<a.shape[1]>> \o Tail(Tail(a.shape)),
            [q \in 1..(a.shape[1] * inner) |->
                a.data[(((q - 1) \div inner) * m + j) * inner + ((q - 1) % inner) + 1]])

ReadRows(a, key) ==
    LET inner == Size(Tail(a.shape))
        start == KeyStart(key, a.shape[1])
        cnt   == KeyCount(key, a.shape[1])
    IN  IF key.kind = "col" THEN Column(a, key.a)
        ELSE Arr(KeyShape(key, a.shape),
                 [q \in 1..(cnt * inner) |-> a.data[start * inner + q]])

\* a[key] = data on an array of float32: data is broadcast to the shape of
\* a[key], cast, and copied over the rows the key selects.
WriteRows(a, key, data) ==
    LET inner == Size(Tail(a.shape))
        start == KeyStart(key, a.shape[1])
        cnt   == KeyCount(key, a.shape[1])
        src   == Broadcast(data, KeyShape(key, a.shape))
    IN  Arr(a.shape,
            [p \in 1..Len(a.data) |->
                LET q == p - 1 - start * inner
                IN  IF q >= 0 /\ q < cnt * inner
                    THEN Float32(src.data[q + 1])
                    ELSE a.data[p]])

(***************************************************************************)
(* The state a call works on and leaves: the objects, the scene's list,    *)
(* the backend calls made so far, the exception raised ("ok": none) and    *)
(* the value returned.                                                     *)
(***************************************************************************)
RetNone == [kind |-> "none", arr |-> None, alias |-> <<>>]

World == [geom |-> geom, scene |-> scene, log |-> <<>>, exc |-> "ok", ret |-> RetNone]

Ev(call, g, attr) == [call |-> call, g |-> g, attr |-> attr]

Call(w, call, g, attr) == [w EXCEPT !.log = Append(@, Ev(call, g, attr))]

Raise(w, e) == [w EXCEPT !.exc = e]

\* buf.map() and buf.unmap() of the backend buffer behind geometry g's attr
BufMap(w, g, attr) ==
    [Call(w, "map", g, attr) EXCEPT !.geom[g].mapped[attr] = TRUE]

BufUnmap(w, g, attr) ==
    [Call(w, "unmap", g, attr) EXCEPT !.geom[g].mapped[attr] = FALSE]

(***************************************************************************)
(* fresnel.util.array                                                      *)
(***************************************************************************)
\* util.array(buf, geom): owner is <<g>>, or <<>> when geom is None
View(g, attr, owner) == [g |-> g, attr |-> attr, owner |-> owner]

\* array.__setitem__: map, copy in, unmap, then signal the owner.  A copy
\* that raises leaves the function between map and unmap.  (The two
\* definitions before it are slips of it: one forgets the signal, one
\* writes the last row before it rejects an index.)
ArraySetItemNoUpdate(w, v, key, data) ==
    LET w1 == BufMap(w, v.g, v.attr)
        a  == w.geom[v.g].buf[v.attr]
    IN  IF ~KeyInRange(key, a.shape[1]) THEN Raise(w1, "IndexError")
        ELSE IF ~CanBroadcast(data.shape, KeyShape(key, a.shape))
        THEN Raise(w1, "ValueError")
        ELSE BufUnmap([w1 EXCEPT !.geom[v.g].buf[v.attr] = WriteRows(a, key, data)],
                      v.g, v.attr)

ArraySetItemPartial(w, v, key, data) ==
    LET w1 == BufMap(w, v.g, v.attr)
        a  == w.geom[v.g].buf[v.attr]
        n  == a.shape[1]
    IN  IF ~KeyInRange(key, n)
        THEN Raise([w1 EXCEPT !.geom[v.g].buf[v.attr] =
                        IF n > 0 /\ CanBroadcast(data.shape, Tail(a.shape))
                        THEN WriteRows(a, IntKey(n - 1), data) ELSE a],
                   "IndexError")
        ELSE IF ~CanBroadcast(data.shape, KeyShape(key, a.shape))
        THEN Raise(w1, "ValueError")
        ELSE LET w2 == BufUnmap([w1 EXCEPT !.geom[v.g].buf[v.attr] =
                                     WriteRows(a, key, data)], v.g, v.attr)
             IN  IF v.owner # <<>> THEN Call(w2, "update", v.owner[1], "") ELSE w2

ArraySetItem(w, v, key, data) ==
    LET w1 == BufMap(w, v.g, v.attr)
        a  == w.geom[v.g].buf[v.attr]
    IN  IF ~KeyInRange(key, a.shape[1]) THEN Raise(w1, "IndexError")
        ELSE IF ~CanBroadcast(data.shape, KeyShape(key, a.shape))
        THEN Raise(w1, "ValueError")
        ELSE LET w2 == BufUnmap([w1 EXCEPT !.geom[v.g].buf[v.attr] =
                                     WriteRows(a, key, data)], v.g, v.attr)
             IN  IF v.owner # <<>> THEN Call(w2, "update", v.owner[1], "") ELSE w2

\* array.__getitem__: the copy it returns aliases nothing
ArrayGetItemView(w, v, key) ==
    LET w1 == BufMap(w, v.g, v.attr)
        a  == w.geom[v.g].buf[v.attr]
    IN  IF ~KeyInRange(key, a.shape[1]) THEN Raise(w1, "IndexError")
        ELSE [BufUnmap(w1, v.g, v.attr) EXCEPT
                 !.ret = [kind |-> "array", arr |-> ReadRows(a, key),
                          alias |-> <<v.g, v.attr, KeyStart(key, a.shape[1])>>]]

ArrayGetItem(w, v, key) ==
    LET w1 == BufMap(w, v.g, v.attr)
        a  == w.geom[v.g].buf[v.attr]
    IN  IF ~KeyInRange(key, a.shape[1]) THEN Raise(w1, "IndexError")
        ELSE [BufUnmap(w1, v.g, v.attr) EXCEPT
                 !.ret = [kind |-> "array", arr |-> ReadRows(a, key), alias |-> <<>>]]

\* array.shape and array.dtype
ArrayShape(w, v) ==
    LET a == w.geom[v.g].buf[v.attr]
    IN  [BufUnmap(BufMap(w, v.g, v.attr), v.g, v.attr) EXCEPT
            !.ret = [kind |-> "shape", arr |-> Arr(<<Len(a.shape)>>, a.shape),
                     alias |-> <<>>]]

ArrayDtype(w, v) ==
    [BufUnmap(BufMap(w, v.g, v.attr), v.g, v.attr) EXCEPT
        !.ret = [kind |-> "float32", arr |-> None, alias |-> <<>>]]

(***************************************************************************)
(* The geometry classes                                                    *)
(***************************************************************************)
Attrs(kind) ==
    CASE kind \in {"Cylinder", "Box"} -> {"points", "radius", "color"}
      [] kind = "Polygon" -> {"position", "angle", "color"}
      [] kind = "Sphere" -> {"position", "radius", "color"}
      [] OTHER -> {"position", "orientation", "color"}

\* The shape of each attribute buffer, as the classes document it.
AttrShape(kind, attr, n, vertices) ==
    CASE kind \in {"Cylinder", "Box"} /\ attr \in {"points", "color"} -> <<n, 2, 3>>
      [] kind = "Polygon" /\ attr = "position" -> <<n, 2>>
      [] kind = "Mesh" /\ attr = "color" -> <<vertices.shape[1], 3>>
      [] attr \in {"radius", "angle"} -> <<n>>
      [] attr = "orientation" -> <<n, 4>>
      [] OTHER -> <<n, 3>>

NextId(w) == Cardinality(DOMAIN w.geom) + 1

\* scene.device.module.Geometry<Kind>(scene._scene, ..., N) followed by the
\* three assignments every constructor makes: material, outline_material,
\* outline_width.  The buffers start as zeros.
NativeGeometry(w, kind, n, vertices) ==
    LET g  == NextId(w)
        o  == [kind |-> kind, N |-> n,
               buf |-> [a \in Attrs(kind) |-> Zeros(AttrShape(kind, a, n, vertices))],
               mapped |-> [a \in Attrs(kind) |-> FALSE],
               box |-> <<>>, vertices |-> vertices,
               enabled |-> TRUE, removed |-> FALSE]
        w1 == Call([w EXCEPT !.geom = @ @@ (g :> o)], "create", g, "")
    IN  Call(Call(Call(w1, "setMaterial", g, ""), "setOutlineMaterial", g, ""),
             "setOutlineWidth", g, "")

\* The attribute properties: util.array(self._geometry.get<Attr>Buffer(), geom=self)
Attr(g, attr) == View(g, attr, <<g>>)

\* if data is not None: self.<attr>[:] = data
Seed(w, g, attr, data) ==
    IF w.exc # "ok" \/ data = None THEN w
    ELSE ArraySetItem(w, Attr(g, attr), AllKey, data)

\* self.scene = scene; self.scene.geometry.append(self)
Register(w, g) ==
    IF w.exc # "ok" THEN w
    ELSE Call([w EXCEPT !.scene = Append(@, g)], "append", g, "")

\* if N is None: N = len(first): N is <<>> for None and <<n>> for n
NoLen(N, first) == N = <<>> /\ (first = None \/ first.shape = <<>>)

CountOf(N, first) == IF N = <<>> THEN first.shape[1] ELSE N[1]

\* Cylinder.__init__ (cls is the class of self: Box inherits it).
\* (CylinderInitLate asks for len(points) after it has made the native
\* geometry.)
CylinderInitLate(w, cls, points, radius, color, N) ==
    IF NoLen(N, points) THEN Raise(NativeGeometry(w, cls, 0, None), "TypeError")
    ELSE LET g  == NextId(w)
             w1 == NativeGeometry(w, cls, CountOf(N, points), None)
         IN  Register(Seed(Seed(Seed(w1, g, "points", points),
                                g, "radius", radius), g, "color", color), g)

CylinderInit(w, cls, points, radius, color, N) ==
    IF NoLen(N, points) THEN Raise(w, "TypeError")
    ELSE LET g  == NextId(w)
             w1 == NativeGeometry(w, cls, CountOf(N, points), None)
         IN  Register(Seed(Seed(Seed(w1, g, "points", points),
                                g, "radius", radius), g, "color", color), g)

\* Polygon.__init__
PolygonInit(w, vertices, position, angle, color, N) ==
    IF NoLen(N, position) THEN Raise(w, "TypeError")
    ELSE LET g  == NextId(w)
             w1 == NativeGeometry(w, "Polygon", CountOf(N, position), vertices)
         IN  Register(Seed(Seed(Seed(w1, g, "position", position),
                                g, "angle", angle), g, "color", color), g)

\* Sphere.__init__
SphereInit(w, position, radius, color, N) ==
    IF NoLen(N, position) THEN Raise(w, "TypeError")
    ELSE LET g  == NextId(w)
             w1 == NativeGeometry(w, "Sphere", CountOf(N, position), None)
         IN  Register(Seed(Seed(Seed(w1, g, "position", position),
                                g, "radius", radius), g, "color", color), g)

\* The identity quaternion [1, 0, 0, 0] that Mesh.__init__ writes by default
UnitQuaternion == Arr(<<4>>, <<2, 0, 0, 0>>)

\* Mesh.__init__
MeshInit(w, vertices, position, orientation, color, N) ==
    IF NoLen(N, position) THEN Raise(w, "TypeError")
    ELSE LET g  == NextId(w)
             w1 == NativeGeometry(w, "Mesh", CountOf(N, position), AsFloat32(vertices))
             w2 == Seed(w1, g, "position", position)
             w3 == Seed(w2, g, "orientation",
                        IF orientation # None THEN orientation ELSE UnitQuaternion)
         IN  Register(Seed(w3, g, "color", color), g)

\* ConvexPolyhedron.__init__: info is the set of keys polyhedron_info holds
InfoKeys == {"face_origin", "face_normal", "face_color", "radius"}

ConvexPolyhedronInit(w, info, position, orientation, color, N) ==
    IF NoLen(N, position) THEN Raise(w, "TypeError")
    ELSE IF ~(InfoKeys \subseteq info) THEN Raise(w, "KeyError")
    ELSE LET g  == NextId(w)
             w1 == NativeGeometry(w, "ConvexPolyhedron", CountOf(N, position), None)
         IN  Register(Seed(Seed(Seed(w1, g, "position", position),
                                g, "orientation", orientation), g, "color", color), g)

(***************************************************************************)
(* Box                                                                     *)
(***************************************************************************)
Mul(a, b) == (a * b) \div 2

VAdd(u, v) == <<u[1] + v[1], u[2] + v[2], u[3] + v[3]>>

VNegHalf(u) == <<(-u[1]) \div 2, (-u[2]) \div 2, (-u[3]) \div 2>>

\* len(box) is 1, 3 or 6: otherwise _generate_points raises RuntimeError
ValidBox(box) == Len(box) \in {1, 3, 6}

\* The three columns of box_matrix
Lattice(box) ==
    LET Lx == box[1]
        Ly == IF Len(box) = 1 THEN Lx ELSE box[2]
        Lz == IF Len(box) = 1 THEN Lx ELSE box[3]
        xy == IF Len(box) = 6 THEN box[4] ELSE 0
        xz == IF Len(box) = 6 THEN box[5] ELSE 0
        yz == IF Len(box) = 6 THEN box[6] ELSE 0
    IN  << <<Lx, 0, 0>>,
           <<Mul(xy, Ly), Ly, 0>>,
           <<Mul(xz, Lz), Mul(yz, Lz), Lz>> >>

\* The corners A..H, in that order
Corners(box) ==
    LET a1 == Lattice(box)[1]
        a2 == Lattice(box)[2]
        a3 == Lattice(box)[3]
        A  == VNegHalf(VAdd(VAdd(a1, a2), a3))
    IN  << A,
           VAdd(A, a1),
           VAdd(A, a2),
           VAdd(A, a3),
           VAdd(VAdd(A, a1), a3),
           VAdd(VAdd(A, a2), a3),
           VAdd(VAdd(A, a1), a2),
           VAdd(VAdd(VAdd(A, a1), a2), a3) >>

\* box_points, as pairs of indices into A..H: A=1 B=2 C=3 D=4 E=5 F=6 G=7 H=8
EdgesMissing == << <<1, 2>>, <<1, 3>>, <<1, 4>>, <<2, 5>>, <<2, 7>>, <<3, 7>>,
                   <<3, 6>>, <<4, 5>>, <<4, 6>>, <<5, 8>>, <<6, 8>>, <<6, 8>> >>

Edges == << <<1, 2>>, <<1, 3>>, <<1, 4>>, <<2, 5>>, <<2, 7>>, <<3, 7>>,
            <<3, 6>>, <<4, 5>>, <<4, 6>>, <<5, 8>>, <<6, 8>>, <<7, 8>> >>

\* Box._generate_points for a valid box: a 12 x 2 x 3 array
GeneratePoints(box) ==
    LET c == Corners(box)
    IN  Arr(<<12, 2, 3>>,
            [p \in 1..72 |->
                LET e == (p - 1) \div 6
                    k == ((p - 1) \div 3) % 2
                    x == (p - 1) % 3
                IN  c[Edges[e + 1][k + 1]][x + 1]])

\* radius defaults to [0.5]
DefaultRadius == Arr(<<1>>, <<1>>)

\* Box.__init__
BoxInit(w, box, radius, color) ==
    LET g  == NextId(w)
        w1 == CylinderInit(w, "Box", None, None, None, <<12>>)
        w2 == [w1 EXCEPT !.geom[g].box = box]
    IN  IF ~ValidBox(box) THEN Raise(w2, "RuntimeError")
        ELSE Seed(Seed(Seed(w2, g, "points", GeneratePoints(box)),
                       g, "radius", IF radius # None THEN radius ELSE DefaultRadius),
                  g, "color", color)

\* Box.box (getter)
BoxGetBox(w, g) ==
    [w EXCEPT !.ret = [kind |-> "box",
                       arr |-> Arr(<<Len(w.geom[g].box)>>, w.geom[g].box),
                       alias |-> <<>>]]

\* Box.box (setter)
BoxSetBoxStale(w, g, box) ==
    LET old == w.geom[g].box
        w1  == [w EXCEPT !.geom[g].box = box]
    IN  IF ~ValidBox(box) THEN Raise(w1, "RuntimeError")
        ELSE Seed(w1, g, "points", GeneratePoints(IF ValidBox(old) THEN old ELSE box))

BoxSetBox(w, g, box) ==
    LET w1 == [w EXCEPT !.geom[g].box = box]
    IN  IF ~ValidBox(box) THEN Raise(w1, "RuntimeError")
        ELSE Seed(w1, g, "points", GeneratePoints(box))

\* Box.points (setter)
BoxSetPoints(w, g, value) == Raise(w, "AttributeError")

(***************************************************************************)
(* Geometry: enable, disable, remove and the assignment of materials.      *)
(* Each is one call of a hook of the native handle.  What the hooks do is  *)
(* the backend's part: enable and disable set the handle's visibility,     *)
(* remove detaches it.  On a handle that remove has detached the backend's *)
(* answer is not specified: late is what it does then, "ok" (it returns    *)
(* and does nothing) or the exception it raises.                           *)
(***************************************************************************)
Late(w, g, late, live) ==
    IF w.geom[g].removed THEN (IF late = "ok" THEN w ELSE Raise(w, late)) ELSE live

NativeEnable(w, g, late) ==
    LET w1 == Call(w, "enable", g, "")
    IN  Late(w1, g, late, [w1 EXCEPT !.geom[g].enabled = TRUE])

NativeDisable(w, g, late) ==
    LET w1 == Call(w, "disable", g, "")
    IN  Late(w1, g, late, [w1 EXCEPT !.geom[g].enabled = FALSE])

NativeRemove(w, g, late) ==
    LET w1 == Call(w, "remove", g, "")
    IN  Late(w1, g, late, [w1 EXCEPT !.geom[g].removed = TRUE])

NativeSetMaterial(w, g, hook, late) ==
    LET w1 == Call(w, hook, g, "")
    IN  Late(w1, g, late, w1)

\* Geometry.enable and Geometry.disable
GeometryEnableRefresh(w, g, late) == Call(NativeEnable(w, g, late), "update", g, "")

GeometryEnable(w, g, late) == NativeEnable(w, g, late)

GeometryDisable(w, g, late) == NativeDisable(w, g, late)

\* list.remove(x): the list without its first x
RemoveFirst(s, x) ==
    LET i == CHOOSE j \in 1..Len(s) : s[j] = x /\ \A k \in 1..(j - 1) : s[k] # x
    IN  SubSeq(s, 1, i - 1) \o SubSeq(s, i + 1, Len(s))

\* Geometry.remove: list.remove raises ValueError for an x it does not hold.
\* (GeometryRemoveLast drops the last geometry of the list instead.)
GeometryRemoveLast(w, g, late) ==
    LET w1 == NativeRemove(w, g, late)
    IN  IF w1.exc # "ok" THEN w1
        ELSE IF \A i \in 1..Len(w1.scene) : w1.scene[i] # g THEN Raise(w1, "ValueError")
        ELSE [w1 EXCEPT !.scene = SubSeq(@, 1, Len(@) - 1)]

GeometryRemove(w, g, late) ==
    LET w1 == NativeRemove(w, g, late)
    IN  IF w1.exc # "ok" THEN w1
        ELSE IF \A i \in 1..Len(w1.scene) : w1.scene[i] # g THEN Raise(w1, "ValueError")
        ELSE [w1 EXCEPT !.scene = RemoveFirst(@, g)]

\* geometry.material = mat
GeometrySetMaterial(w, g, late) == NativeSetMaterial(w, g, "setMaterial", late)

(***************************************************************************)
(* get_extents.  The arithmetic is numpy's on float32 arrays: every        *)
(* difference and sum is rounded to float32, and a reduction of an array   *)
(* with no rows raises ValueError.                                         *)
(***************************************************************************)
\* r.reshape(len(r), 1)
Reshape(r) == Arr(<<r.shape[1], 1>>, r.data)

\* a - b and a + b, b broadcast to the shape of a
Minus(a, b) ==
    LET bb == Broadcast(b, a.shape)
    IN  Arr(a.shape, [p \in 1..Len(a.data) |-> Float32(a.data[p] - bb.data[p])])

Plus(a, b) ==
    LET bb == Broadcast(b, a.shape)
    IN  Arr(a.shape, [p \in 1..Len(a.data) |-> Float32(a.data[p] + bb.data[p])])

RECURSIVE Least(_)
Least(s) ==
    IF Len(s) = 1 THEN s[1]
    ELSE LET m == Least(Tail(s)) IN IF s[1] < m THEN s[1] ELSE m

RECURSIVE Greatest(_)
Greatest(s) ==
    IF Len(s) = 1 THEN s[1]
    ELSE LET m == Greatest(Tail(s)) IN IF s[1] > m THEN s[1] ELSE m

\* numpy.min(a, axis=0) and numpy.max(a, axis=0) of an array with rows
MinAxis0(a) ==
    LET inner == Size(Tail(a.shape))
    IN  Arr(Tail(a.shape),
            [k \in 1..inner |-> Least([i \in 1..a.shape[1] |-> a.data[(i - 1) * inner + k]])])

MaxAxis0(a) ==
    LET inner == Size(Tail(a.shape))
    IN  Arr(Tail(a.shape),
            [k \in 1..inner |-> Greatest([i \in 1..a.shape[1] |-> a.data[(i - 1) * inner + k]])])

\* numpy.array([a, b]) and numpy.array([a, b, c]) of arrays of one shape
Stack2(a, b) == Arr(<<2>> \o a.shape, a.data \o b.data)

Stack3(a, b, c) == Arr(<<3>> \o a.shape, a.data \o b.data \o c.data)

Returns(w, arr) == [w EXCEPT !.ret = [kind |-> "array", arr |-> arr, alias |-> <<>>]]

\* Cylinder.get_extents (Box inherits it).  (CylinderGetExtentsStart looks
\* at the start points only.)
CylinderGetExtentsStart(w, g) ==
    LET w1 == ArrayGetItem(w, Attr(g, "points"), ColKey(0))
        w2 == ArrayGetItem(w1, Attr(g, "points"), ColKey(1))
        w3 == ArrayGetItem(w2, Attr(g, "radius"), AllKey)
        A  == w1.ret.arr
        r  == Reshape(w3.ret.arr)
    IN  IF A.shape[1] = 0 THEN Raise([w3 EXCEPT !.ret = RetNone], "ValueError")
        ELSE Returns(w3, Stack2(MinAxis0(Minus(A, r)), MaxAxis0(Plus(A, r))))

CylinderGetExtents(w, g) ==
    LET w1 == ArrayGetItem(w, Attr(g, "points"), ColKey(0))
        w2 == ArrayGetItem(w1, Attr(g, "points"), ColKey(1))
        w3 == ArrayGetItem(w2, Attr(g, "radius"), AllKey)
        A  == w1.ret.arr
        B  == w2.ret.arr
        r  == Reshape(w3.ret.arr)
    IN  IF A.shape[1] = 0 THEN Raise([w3 EXCEPT !.ret = RetNone], "ValueError")
        ELSE Returns(w3,
                 Stack2(MinAxis0(Stack2(MinAxis0(Minus(A, r)), MinAxis0(Minus(B, r)))),
                        MaxAxis0(Stack2(MaxAxis0(Plus(A, r)), MaxAxis0(Plus(B, r))))))

\* Mesh.get_extents: a, b and c are the columns of self.vertices, so r is
\* the least and the greatest of all the coordinates of the vertices.
MeshGetExtents(w, g) ==
    LET v  == w.geom[g].vertices
        w1 == ArrayGetItem(w, Attr(g, "position"), AllKey)
        pos == w1.ret.arr
    IN  IF v.shape[1] = 0 THEN Raise(w, "ValueError")
        ELSE LET a  == Column(v, 0)
                 b  == Column(v, 1)
                 c  == Column(v, 2)
                 r0 == MinAxis0(Stack3(MinAxis0(a), MinAxis0(b), MinAxis0(c)))
                 r1 == MaxAxis0(Stack3(MaxAxis0(a), MaxAxis0(b), MaxAxis0(c)))
             IN  IF pos.shape[1] = 0 THEN Raise([w1 EXCEPT !.ret = RetNone], "ValueError")
                 ELSE Returns(w1, Stack2(MinAxis0(Plus(pos, r0)), MaxAxis0(Plus(pos, r1))))

(***************************************************************************)
(* Actions: one call of the API each.  A call is applied to the current    *)
(* state with an empty log, and what it leaves becomes the next state.     *)
(***************************************************************************)
Done(w, name, g, attr, key, data) ==
    /\ geom' = w.geom
    /\ scene' = w.scene
    /\ log' = w.log
    /\ outcome' = w.exc
    /\ ret' = w.ret
    /\ op' = [name |-> name, g |-> g, attr |-> attr, key |-> key, data |-> data,
              args |-> <<>>, N |-> <<>>]

\* A constructor returning (or raising): args are the attribute arguments
\* it was given, by attribute, and N is its argument N (<<>>: None).
Constructed(w, name, data, args, N) ==
    /\ geom' = w.geom
    /\ scene' = w.scene
    /\ log' = w.log
    /\ outcome' = w.exc
    /\ ret' = w.ret
    /\ op' = [name |-> name, g |-> NextId(World), attr |-> "", key |-> AllKey,
              data |-> data, args |-> args, N |-> N]

\* geometry.<attr>[key] = data
SetItem(g, attr, key, data) ==
    Done(ArraySetItem(World, Attr(g, attr), key, data), "set", g, attr, key, data)

\* geometry.<attr>[key]
GetItem(g, attr, key) ==
    Done(ArrayGetItem(World, Attr(g, attr), key), "get", g, attr, key, None)

\* geometry.<attr>.shape
Shape(g, attr) ==
    Done(ArrayShape(World, Attr(g, attr)), "shape", g, attr, AllKey, None)

\* geometry.<attr>.dtype
Dtype(g, attr) ==
    Done(ArrayDtype(World, Attr(g, attr)), "dtype", g, attr, AllKey, None)

\* The caller changes the array the last get returned: x = a[key]; x[...] = v.
\* Only an array that aliases the buffer would carry the change into it.
MutateReturned(v) ==
    /\ ret.kind = "array"
    /\ Len(ret.arr.data) > 0
    /\ ret.arr.data[1] # v
    /\ ret' = [ret EXCEPT !.arr.data[1] = v]
    /\ geom' = IF ret.alias = <<>> THEN geom
               ELSE LET g == ret.alias[1]
                        a == ret.alias[2]
                        p == ret.alias[3] * Size(Tail(geom[g].buf[a].shape)) + 1
                    IN  [geom EXCEPT ![g].buf[a].data[p] = v]
    /\ op' = [name |-> "mutate", g |-> 0, attr |-> "", key |-> AllKey, data |-> Scalar(v),
              args |-> <<>>, N |-> <<>>]
    /\ outcome' = "ok"
    /\ log' = <<>>
    /\ UNCHANGED scene

(***************************************************************************)
(* Spec: the buffer views of one Sphere.  Init is the state after          *)
(* Sphere(scene, N=n).                                                     *)
(***************************************************************************)
Empty == [geom |-> <<>>, scene |-> <<>>, log |-> <<>>, exc |-> "ok", ret |-> RetNone]

Start(w, name, data) ==
    /\ geom = w.geom
    /\ scene = w.scene
    /\ log = w.log
    /\ outcome = w.exc
    /\ ret = w.ret
    /\ op = [name |-> name, g |-> NextId(Empty), attr |-> "", key |-> AllKey, data |-> data,
             args |-> <<>>, N |-> <<>>]

\* data of a given shape with all elements different: 2, 4, 6, ... (1.0, 2.0, ...)
Ramp(shape) == Arr(shape, [i \in 1..Size(shape) |-> 2 * i])

\* Indices below, at both ends of and above the range of a buffer of MaxN
\* rows; slices inside, across the end of and beyond it.
ViewKeys ==
    {IntKey(i) : i \in {-(MaxN + 1), -1, 0, MaxN}}
        \cup {AllKey, SliceKey(1, MaxN + 2), SliceKey(MaxN + 1, MaxN + 3)}

ViewData == {Scalar(2), Ramp(<<MaxN>>)}

Init == \E n \in 0..MaxN : Start(SphereInit(Empty, None, None, None, <<n>>), "Sphere", None)

Next ==
    \/ \E g \in DOMAIN geom, attr \in {"position", "radius"}, key \in ViewKeys, data \in ViewData :
          SetItem(g, attr, key, data)
    \/ \E g \in DOMAIN geom, attr \in Attrs("Sphere"), key \in ViewKeys :
          GetItem(g, attr, key)
    \/ \E g \in DOMAIN geom, attr \in Attrs("Sphere") : Shape(g, attr)
    \/ \E g \in DOMAIN geom, attr \in Attrs("Sphere") : Dtype(g, attr)
    \/ MutateReturned(6)

Spec == Init /\ [][Next]_vars

(***************************************************************************)
(* SpecBox: the life of a Box: construction in an empty scene,             *)
(* reassignment of box, writes and reads through its views.                *)
(***************************************************************************)
BoxArr(box) == Arr(<<Len(box)>>, box)

\* Box(scene, box, radius, color)
NewBox(box, radius, color) ==
    /\ geom = <<>>
    /\ Constructed(BoxInit(World, box, radius, color), "Box", BoxArr(box),
                   [a \in Attrs("Box") |->
                       IF a = "radius" THEN radius ELSE IF a = "color" THEN color ELSE None],
                   <<>>)

\* b.box = box
SetBox(g, box) ==
    /\ geom[g].kind = "Box"
    /\ Done(BoxSetBox(World, g, box), "set_box", g, "", AllKey, BoxArr(box))

\* b.box
GetBox(g) ==
    /\ geom[g].kind = "Box"
    /\ Done(BoxGetBox(World, g), "get_box", g, "", AllKey, None)

\* b.points = value
SetPoints(g, value) ==
    /\ geom[g].kind = "Box"
    /\ Done(BoxSetPoints(World, g, value), "set_points", g, "points", AllKey, value)

\* A cubic, an orthorhombic and a triclinic box (2.0; 1.0, 2.0, 3.0; 2.0 with
\* tilts 1, 0, 1), and two boxes of a length that is not 1, 3 or 6.
BoxArgs == {<<4>>, <<2, 4, 6>>, <<4, 4, 4, 2, 0, 2>>, <<>>, <<2, 2>>}

BoxRadius == {None, Scalar(2)}

BoxColor == {None, Arr(<<3>>, <<2, 0, 0>>)}

BoxKeys == {AllKey, IntKey(0)}

InitBox == Start(Empty, "", None)

NextBox ==
    \/ \E box \in BoxArgs, radius \in BoxRadius, color \in BoxColor : NewBox(box, radius, color)
    \/ \E g \in DOMAIN geom, box \in BoxArgs : SetBox(g, box)
    \/ \E g \in DOMAIN geom : GetBox(g)
    \/ \E g \in DOMAIN geom : SetPoints(g, Zeros(<<12, 2, 3>>))
    \/ \E g \in DOMAIN geom, attr \in Attrs("Box"), key \in BoxKeys :
          SetItem(g, attr, key, Scalar(2))
    \/ \E g \in DOMAIN geom, attr \in Attrs("Box") : GetItem(g, attr, AllKey)

SpecBox == InitBox /\ [][NextBox]_vars

(***************************************************************************)
(* SpecGen: Box._generate_points as a function of box.  Init draws box,    *)
(* and the one action applies the function.                                *)
(***************************************************************************)
MaxEdge == 2     \* edge lengths Lx, Ly, Lz range over -MaxEdge..MaxEdge
MaxTilt == 1     \* tilt factors xy, xz, yz range over -MaxTilt..MaxTilt

GenLengths == {2 * k : k \in -MaxEdge..MaxEdge}

GenTilts == {2 * k : k \in -MaxTilt..MaxTilt}

GenBoxes ==
    {<<l>> : l \in GenLengths}
        \cup (GenLengths \X GenLengths \X GenLengths)
        \cup (GenLengths \X GenLengths \X GenLengths \X GenTilts \X GenTilts \X GenTilts)
        \cup {<<>>, <<2, 2>>, <<2, 2, 2, 0>>, <<2, 2, 2, 0, 0>>, <<2, 2, 2, 0, 0, 0, 0>>}

InitGen ==
    /\ geom = <<>>
    /\ scene = <<>>
    /\ log = <<>>
    /\ outcome = "ok"
    /\ ret = RetNone
    /\ \E box \in GenBoxes :
          op = [name |-> "args", g |-> 0, attr |-> "", key |-> AllKey, data |-> BoxArr(box),
                args |-> <<>>, N |-> <<>>]

\* self._generate_points(box)
Generate ==
    /\ op.name = "args"
    /\ op' = [op EXCEPT !.name = "generate_points"]
    /\ IF ValidBox(op.data.data)
       THEN /\ ret' = [kind |-> "array", arr |-> GeneratePoints(op.data.data), alias |-> <<>>]
            /\ outcome' = "ok"
       ELSE /\ ret' = RetNone
            /\ outcome' = "RuntimeError"
    /\ UNCHANGED <<geom, scene, log>>

NextGen == Generate

SpecGen == InitGen /\ [][NextGen]_vars

(***************************************************************************)
(* SpecPrim: one primitive of any kind: construction in an empty scene     *)
(* with or without attribute arguments, then writes of whole attributes    *)
(* and reads.                                                              *)
(***************************************************************************)
Args(kind, first, second, third) ==
    CASE kind = "Cylinder" -> [a \in Attrs(kind) |->
            IF a = "points" THEN first ELSE IF a = "radius" THEN second ELSE third]
      [] kind = "Polygon" -> [a \in Attrs(kind) |->
            IF a = "position" THEN first ELSE IF a = "angle" THEN second ELSE third]
      [] kind = "Sphere" -> [a \in Attrs(kind) |->
            IF a = "position" THEN first ELSE IF a = "radius" THEN second ELSE third]
      [] OTHER -> [a \in Attrs(kind) |->
            IF a = "position" THEN first ELSE IF a = "orientation" THEN second ELSE third]

\* Cylinder(scene, points, radius, color, N) and the like
NewCylinder(points, radius, color, N) ==
    /\ geom = <<>>
    /\ Constructed(CylinderInit(World, "Cylinder", points, radius, color, N), "Cylinder",
                   None, Args("Cylinder", points, radius, color), N)

NewPolygon(vertices, position, angle, color, N) ==
    /\ geom = <<>>
    /\ Constructed(PolygonInit(World, vertices, position, angle, color, N), "Polygon",
                   vertices, Args("Polygon", position, angle, color), N)

NewSphere(position, radius, color, N) ==
    /\ geom = <<>>
    /\ Constructed(SphereInit(World, position, radius, color, N), "Sphere",
                   None, Args("Sphere", position, radius, color), N)

NewMesh(vertices, position, orientation, color, N) ==
    /\ geom = <<>>
    /\ Constructed(MeshInit(World, vertices, position, orientation, color, N), "Mesh",
                   vertices, Args("Mesh", position, orientation, color), N)

NewConvexPolyhedron(info, position, orientation, color, N) ==
    /\ geom = <<>>
    /\ Constructed(ConvexPolyhedronInit(World, info, position, orientation, color, N),
                   "ConvexPolyhedron", None,
                   Args("ConvexPolyhedron", position, orientation, color), N)

\* A value that float32 does not hold: 2^24 + 1 half-units, 8388608.5
Big == 2^24 + 1

\* Ramp with a first element that float32 does not hold
BigRamp(shape) == Arr(shape, [i \in 1..Size(shape) |-> IF i = 1 THEN Big ELSE 2 * i])

\* data of a given shape with all elements different: 1, 3, 5, ... (0.5, 1.5, ...)
OddRamp(shape) == Arr(shape, [i \in 1..Size(shape) |-> 2 * i - 1])

\* The arguments a constructor is given for an attribute of shape sh: none,
\* an array of that shape, one with a value float32 does not hold, and one
\* with a row too many.
ArgsOf(sh) == {None, Ramp(sh), BigRamp(sh), Ramp(<<sh[1] + 1>> \o Tail(sh))}

PrimN == {<<>>, <<MaxN>>}

\* One triangle, and the three vertices of a polygon
Triangle == Ramp(<<3, 3>>)

Outline == Ramp(<<3, 2>>)

PrimShape(kind, attr) == AttrShape(kind, attr, MaxN, Triangle)

InitPrim == Start(Empty, "", None)

NextPrim ==
    \/ \E N \in PrimN :
       \E points \in ArgsOf(PrimShape("Cylinder", "points")) :
       \E radius \in {None, Ramp(PrimShape("Cylinder", "radius"))} :
       \E color \in {None, Ramp(PrimShape("Cylinder", "color"))} :
          NewCylinder(points, radius, color, N)
    \/ \E N \in PrimN :
       \E position \in ArgsOf(PrimShape("Polygon", "position")) :
       \E angle \in {None, Ramp(PrimShape("Polygon", "angle"))} :
       \E color \in {None, Ramp(PrimShape("Polygon", "color"))} :
          NewPolygon(Outline, position, angle, color, N)
    \/ \E N \in PrimN :
       \E position \in ArgsOf(PrimShape("Sphere", "position")) :
       \E radius \in {None, Ramp(PrimShape("Sphere", "radius"))} :
       \E color \in {None, Ramp(PrimShape("Sphere", "color"))} :
          NewSphere(position, radius, color, N)
    \/ \E N \in PrimN :
       \E position \in ArgsOf(PrimShape("Mesh", "position")) :
       \E orientation \in {None, Ramp(PrimShape("Mesh", "orientation"))} :
       \E color \in {None, Ramp(PrimShape("Mesh", "color"))} :
          NewMesh(Triangle, position, orientation, color, N)
    \/ \E N \in PrimN :
       \E position \in ArgsOf(PrimShape("ConvexPolyhedron", "position")) :
       \E orientation \in {None, Ramp(PrimShape("ConvexPolyhedron", "orientation"))} :
       \E color \in {None, Ramp(PrimShape("ConvexPolyhedron", "color"))} :
          NewConvexPolyhedron(InfoKeys, position, orientation, color, N)
    \/ \E radius \in {None, Ramp(<<12>>), BigRamp(<<12>>)} :
       \E color \in {None, Ramp(<<12, 2, 3>>)} :
          NewBox(<<4>>, radius, color)
    \/ \E g \in DOMAIN geom : \E attr \in Attrs(geom[g].kind) :
       \E data \in {OddRamp(geom[g].buf[attr].shape), BigRamp(geom[g].buf[attr].shape)} :
          SetItem(g, attr, AllKey, data)
    \/ \E g \in DOMAIN geom : \E attr \in Attrs(geom[g].kind) : GetItem(g, attr, AllKey)

SpecPrim == InitPrim /\ [][NextPrim]_vars

(***************************************************************************)
(* SpecLife: the lives of up to MaxGeoms geometries in one scene:          *)
(* construction, enable, disable, remove, assignment of materials, a write *)
(* to an attribute and the reassignment of a Box's box.                    *)
(***************************************************************************)
MaxGeoms == 2    \* geometries constructed in the scene

\* Sphere(scene, N=1)
AddSphere ==
    /\ Cardinality(DOMAIN geom) < MaxGeoms
    /\ Constructed(SphereInit(World, None, None, None, <<1>>), "Sphere", None,
                   Args("Sphere", None, None, None), <<1>>)

\* Box(scene, box)
AddBox(box) ==
    /\ Cardinality(DOMAIN geom) < MaxGeoms
    /\ Constructed(BoxInit(World, box, None, None), "Box", BoxArr(box),
                   [a \in Attrs("Box") |-> None], <<>>)

\* geometry.enable(), geometry.disable(), geometry.remove()
Enable(g, late) ==
    Done(GeometryEnable(World, g, late), "enable", g, "", AllKey, None)

Disable(g, late) ==
    Done(GeometryDisable(World, g, late), "disable", g, "", AllKey, None)

Remove(g, late) ==
    Done(GeometryRemove(World, g, late), "remove", g, "", AllKey, None)

\* geometry.material = mat
SetMaterial(g, late) ==
    Done(GeometrySetMaterial(World, g, late), "set_material", g, "", AllKey, None)

\* What a hook of a detached handle may do
Lates == {"ok", "RuntimeError"}

InitLife == Start(Empty, "", None)

NextLife ==
    \/ AddSphere
    \/ AddBox(<<4>>)
    \/ \E g \in DOMAIN geom, late \in Lates : Enable(g, late)
    \/ \E g \in DOMAIN geom, late \in Lates : Disable(g, late)
    \/ \E g \in DOMAIN geom, late \in Lates : Remove(g, late)
    \/ \E g \in DOMAIN geom, late \in Lates : SetMaterial(g, late)
    \/ \E g \in DOMAIN geom : SetItem(g, "radius", IntKey(0), Scalar(1))
    \/ \E g \in DOMAIN geom : SetBox(g, <<4>>)

SpecLife == InitLife /\ [][NextLife]_vars

(***************************************************************************)
(* SpecExt: get_extents of one Cylinder or one Mesh: construction in an    *)
(* empty scene with 0..MaxN instances, writes of single rows, and          *)
(* get_extents.                                                            *)
(***************************************************************************)
\* cylinder.get_extents() and mesh.get_extents()
CylinderExtents(g) ==
    /\ geom[g].kind \in {"Cylinder", "Box"}
    /\ Done(CylinderGetExtents(World, g), "get_extents", g, "", AllKey, None)

MeshExtents(g) ==
    /\ geom[g].kind = "Mesh"
    /\ Done(MeshGetExtents(World, g), "get_extents", g, "", AllKey, None)

ExtN == {<<n>> : n \in 0..MaxN}

\* One cylinder from (0, 0, 0) to (1, 0, 0)
Segment == Arr(<<1, 2, 3>>, <<0, 0, 0, 2, 0, 0>>)

\* A coordinate that float32 holds, so large that half a unit more or less
\* is no float32: 2^25 half-units, 16777216.0
Far == 2^25

\* Rows to write: end points (-2, 1, 3) and (2, -1, 0), a far end point, a
\* position (-2, 1, 3)
ExtData(attr) ==
    CASE attr = "points" -> {Arr(<<2, 3>>, <<-4, 2, 6, 4, -2, 0>>), Arr(<<3>>, <<Far, 0, -Far>>)}
      [] attr = "radius" -> {Scalar(4)}
      [] attr = "position" -> {Arr(<<3>>, <<-4, 2, 6>>), Arr(<<3>>, <<Far, 0, -Far>>)}
      [] OTHER -> {Scalar(2)}

\* The triangle (0, 0, 0), (1, 0, 0), (0, 2, 0), and a mesh of no triangle
Corner == Arr(<<3, 3>>, <<0, 0, 0, 2, 0, 0, 0, 4, 0>>)

ExtVertices == {Corner, Zeros(<<0, 3>>)}

InitExt == Start(Empty, "", None)

NextExt ==
    \/ \E N \in ExtN, points \in {None, Segment}, radius \in {None, Scalar(1)} :
          NewCylinder(points, radius, None, N)
    \/ \E N \in ExtN, vertices \in ExtVertices, position \in {None, Arr(<<3>>, <<2, 2, 2>>)} :
          NewMesh(vertices, position, None, None, N)
    \/ \E g \in DOMAIN geom : \E attr \in Attrs(geom[g].kind) \ {"color"} :
       \E i \in 0..(MaxN - 1) : \E data \in ExtData(attr) :
          SetItem(g, attr, IntKey(i), data)
    \/ \E g \in DOMAIN geom : CylinderExtents(g)
    \/ \E g \in DOMAIN geom : MeshExtents(g)

SpecExt == InitExt /\ [][NextExt]_vars

(***************************************************************************)
(* What the claims speak of                                                *)
(***************************************************************************)
\* The backend calls named call that the last operation made on geometry g
Calls(call, g) == {i \in 1..Len(log) : log[i].call = call /\ log[i].g = g}

AllCalls(call) == {i \in 1..Len(log) : log[i].call = call}

\* The contents of every attribute buffer
Bufs == [g \in DOMAIN geom |-> geom[g].buf]

\* Rows of the buffer the last operation addressed
OpRows == geom[op.g].buf[op.attr].shape[1]

(***************************************************************************)
(* C1: a successful set through the view of a geometry's attribute makes   *)
(* exactly one backend update() call, on that geometry, and the call is in *)
(* the log when set returns; also for a write of a single element.         *)
(***************************************************************************)
C1_SetSignalsOnce ==
    (op.name = "set" /\ outcome = "ok") =>
        /\ Cardinality(Calls("update", op.g)) = 1
        /\ Cardinality(AllCalls("update")) = 1

C1_Witness ==
    /\ op.name = "set" /\ outcome = "ok" /\ op.key.kind = "int"
    /\ log[Len(log)] = Ev("update", op.g, "")

(***************************************************************************)
(* C2: when an operation of a view ends, normally or by an exception, the  *)
(* buffer is unmapped.  (The code has no release on the failure path.)     *)
(***************************************************************************)
C2_UnmappedAtEnd ==
    \A g \in DOMAIN geom : \A a \in DOMAIN geom[g].mapped : ~geom[g].mapped[a]

(***************************************************************************)
(* C9: get, shape and dtype leave every buffer's contents as they were and *)
(* make no update() call, and what get returns is a copy: a change the     *)
(* caller makes to it leaves every buffer as it was.                       *)
(***************************************************************************)
C9_ReadsPure ==
    [][/\ op'.name \in {"get", "shape", "dtype"} =>
             (Bufs' = Bufs /\ {i \in 1..Len(log') : log'[i].call = "update"} = {})
       /\ op'.name = "mutate" => Bufs' = Bufs]_vars

C9_Witness ==
    /\ op.name = "mutate"
    /\ ret.arr.data[1] = 6
    /\ \E g \in DOMAIN geom : \E a \in DOMAIN geom[g].buf :
          geom[g].buf[a].data # <<>> /\ geom[g].buf[a].data[1] # 6

(***************************************************************************)
(* C10, as claimed: a set whose index or slice lies outside the buffer's   *)
(* bounds fails with an IndexError, makes no update() call and leaves the  *)
(* contents as they were.                                                  *)
(***************************************************************************)
KeyOutside(key, n) ==
    \/ key.kind = "int" /\ (key.a < -n \/ key.a >= n)
    \/ key.kind = "slice" /\ (key.a < -n \/ key.a > n \/ key.b < -n \/ key.b > n)

C10_Original ==
    [][(op'.name = "set" /\ KeyOutside(op'.key, OpRows')) =>
          /\ outcome' = "IndexError"
          /\ {i \in 1..Len(log') : log'[i].call = "update"} = {}
          /\ Bufs' = Bufs]_vars

(***************************************************************************)
(* C10, amended: a set whose integer index lies outside the buffer's       *)
(* bounds (below -n or at least n for n rows) fails with an IndexError,    *)
(* makes no update() call and leaves the contents as they were.            *)
(***************************************************************************)
C10_IndexOutOfRange ==
    [][(op'.name = "set" /\ op'.key.kind = "int"
            /\ (op'.key.a < -OpRows' \/ op'.key.a >= OpRows')) =>
          /\ outcome' = "IndexError"
          /\ {i \in 1..Len(log') : log'[i].call = "update"} = {}
          /\ Bufs' = Bufs]_vars

C10_Witness ==
    /\ op.name = "set" /\ op.key.kind = "int" /\ op.key.a >= OpRows /\ OpRows > 0
    /\ outcome = "IndexError"

(***************************************************************************)
(* C3: a direct write to the points of a Box (b.points = v, or             *)
(* b.points[key] = v through the view) fails with an AttributeError and    *)
(* leaves the points buffer as it was.  (The view of points is as writable *)
(* as any other.)                                                          *)
(***************************************************************************)
C3_PointsImmutable ==
    [][(op'.name = "set_points" \/ (op'.name = "set" /\ op'.attr = "points")) =>
          /\ outcome' = "AttributeError"
          /\ geom'[op'.g].buf["points"] = geom[op'.g].buf["points"]]_vars

(***************************************************************************)
(* C4: after b.box = v for a valid v, the points buffer holds the points   *)
(* of a Box constructed with v, and the radius and color buffers hold what *)
(* they held before.                                                       *)
(***************************************************************************)
FreshBox(box) == BoxInit(Empty, box, None, None).geom[NextId(Empty)]

C4_BoxReassign ==
    [][(op'.name = "set_box" /\ outcome' = "ok") =>
          /\ geom'[op'.g].buf["points"] = FreshBox(op'.data.data).buf["points"]
          /\ geom'[op'.g].buf["radius"] = geom[op'.g].buf["radius"]
          /\ geom'[op'.g].buf["color"] = geom[op'.g].buf["color"]]_vars

\* a reassignment to the triclinic box, after a write to color and while
\* radius holds something else than the default
C4_Witness ==
    /\ op.name = "set_box" /\ outcome = "ok"
    /\ op.data.data = <<4, 4, 4, 2, 0, 2>>
    /\ geom[op.g].buf["color"].data[2] = 2
    /\ geom[op.g].buf["radius"].data[1] = 2
    /\ geom[op.g].buf["points"] = GeneratePoints(<<4, 4, 4, 2, 0, 2>>)

(***************************************************************************)
(* C5: Box(scene, box) with len(box) not 1, 3 or 6 fails with a            *)
(* RuntimeError and changes nothing: the scene's list is what it was and   *)
(* no buffer was written.  (Cylinder.__init__ has appended the geometry    *)
(* before _generate_points looks at box.)                                  *)
(***************************************************************************)
C5_FailedConstruction ==
    [][(op'.name = "Box" /\ Len(op'.data.data) \notin {1, 3, 6}) =>
          /\ outcome' = "RuntimeError"
          /\ scene' = scene
          /\ {i \in 1..Len(log') : log'[i].call = "map"} = {}]_vars

(***************************************************************************)
(* C6: b.box = v with len(v) not 1, 3 or 6 fails with a RuntimeError and   *)
(* leaves the Box as it was: b.box and the points buffer are unchanged,    *)
(* and no update() call is made.  (The setter stores v before it           *)
(* generates the points.)                                                  *)
(***************************************************************************)
C6_FailedReassign ==
    [][(op'.name = "set_box" /\ Len(op'.data.data) \notin {1, 3, 6}) =>
          /\ outcome' = "RuntimeError"
          /\ geom'[op'.g].box = geom[op'.g].box
          /\ geom'[op'.g].buf["points"] = geom[op'.g].buf["points"]
          /\ {i \in 1..Len(log') : log'[i].call = "update"} = {}]_vars

(***************************************************************************)
(* C7.  The lattice vectors are the columns of the box matrix              *)
(* [[Lx, xy Ly, xz Lz], [0, Ly, yz Lz], [0, 0, Lz]]; the corners are       *)
(* center + (a sum of a subset of them), center = -(a1 + a2 + a3)/2.       *)
(***************************************************************************)
EdgeLengths(box) == IF Len(box) = 1 THEN <<box[1], box[1], box[1]>> ELSE SubSeq(box, 1, 3)

TiltFactors(box) == IF Len(box) = 6 THEN SubSeq(box, 4, 6) ELSE <<0, 0, 0>>

LatticeVectors(box) ==
    LET L == EdgeLengths(box)
        t == TiltFactors(box)
    IN  << <<L[1], 0, 0>>,
           <<(t[1] * L[2]) \div 2, L[2], 0>>,
           <<(t[2] * L[3]) \div 2, (t[3] * L[3]) \div 2, L[3]>> >>

Scaled(c, u) == <<c * u[1], c * u[2], c * u[3]>>

Diff(u, v) == <<u[1] - v[1], u[2] - v[2], u[3] - v[3]>>

CornerSet(box) ==
    LET a == LatticeVectors(box)
        s == VAdd(VAdd(a[1], a[2]), a[3])
        center == <<(-s[1]) \div 2, (-s[2]) \div 2, (-s[3]) \div 2>>
    IN  {VAdd(VAdd(VAdd(center, Scaled(i, a[1])), Scaled(j, a[2])), Scaled(k, a[3])) :
            i \in {0, 1}, j \in {0, 1}, k \in {0, 1}}

\* endpoint k (1 or 2) of pair e (1..12) of a 12 x 2 x 3 array
Endpoint(arr, e, k) ==
    LET p == 6 * (e - 1) + 3 * (k - 1)
    IN  <<arr.data[p + 1], arr.data[p + 2], arr.data[p + 3]>>

IsBoxFrame(box, arr) ==
    LET a == LatticeVectors(box)
        P(e) == {Endpoint(arr, e, 1), Endpoint(arr, e, 2)}
    IN  /\ arr.shape = <<12, 2, 3>>
        /\ Len(arr.data) = 72
        /\ \A e \in 1..12 :
              /\ P(e) \subseteq CornerSet(box)
              /\ Cardinality({i \in 1..3 :
                    \/ Diff(Endpoint(arr, e, 2), Endpoint(arr, e, 1)) = a[i]
                    \/ Diff(Endpoint(arr, e, 1), Endpoint(arr, e, 2)) = a[i]}) = 1
        /\ \A e, f \in 1..12 : e # f => P(e) # P(f)
        /\ UNION {P(e) : e \in 1..12} = CornerSet(box)
        /\ Cardinality(CornerSet(box)) = 8
        /\ \A c \in CornerSet(box) : Cardinality({e \in 1..12 : c \in P(e)}) = 3
        /\ box = <<4, 4, 4>> =>
              UNION {P(e) : e \in 1..12} = {-2, 2} \X {-2, 2} \X {-2, 2}

(***************************************************************************)
(* C7, as claimed: for every box of length 1, 3 or 6 the generated points  *)
(* are 12 pairs of corners, each pair one lattice vector apart, no pair    *)
(* twice, the endpoints being the 8 corners, each the endpoint of exactly  *)
(* 3 pairs; for box = [2, 2, 2] the corners of the cube spanning -1..1.    *)
(***************************************************************************)
C7_Original ==
    (op.name = "generate_points" /\ Len(op.data.data) \in {1, 3, 6}) =>
        (outcome = "ok" /\ IsBoxFrame(op.data.data, ret.arr))

(***************************************************************************)
(* C7, amended: the same for every box of length 1, 3 or 6 whose edge      *)
(* lengths Lx, Ly, Lz are all nonzero.  (With a zero edge length corners   *)
(* coincide, and so do pairs.)                                             *)
(***************************************************************************)
C7_BoxFrame ==
    (/\ op.name = "generate_points"
     /\ Len(op.data.data) \in {1, 3, 6}
     /\ \A i \in 1..3 : EdgeLengths(op.data.data)[i] # 0) =>
        (outcome = "ok" /\ IsBoxFrame(op.data.data, ret.arr))

C7_Witness ==
    /\ op.name = "generate_points"
    /\ op.data.data = <<2, 4, -4, 2, -2, 2>>
    /\ ret.kind = "array"
    /\ IsBoxFrame(op.data.data, ret.arr)

(***************************************************************************)
(* C8, as claimed: for every kind of primitive, what is read back from an  *)
(* attribute after the constructor was given it, or after a set of the     *)
(* whole attribute, is exactly what was written (data of the attribute's   *)
(* shape), and a set of one attribute leaves the others as they were.      *)
(***************************************************************************)
Kinds == {"Cylinder", "Box", "Polygon", "Sphere", "Mesh", "ConvexPolyhedron"}

\* what geometry.<attr>[:] returns in the state w
ReadBackIn(w, g, attr) == ArrayGetItem(w, Attr(g, attr), AllKey).ret.arr

ReadBack(g, attr) == ReadBackIn(World, g, attr)

\* the state a step leads to
After == [geom |-> geom', scene |-> scene', log |-> <<>>, exc |-> "ok", ret |-> RetNone]

RoundTrip(ok(_)) ==
    /\ (op'.name = "set" /\ outcome' = "ok" /\ op'.key = AllKey
            /\ op'.data.shape = geom[op'.g].buf[op'.attr].shape /\ ok(op'.data)) =>
          /\ ReadBackIn(After, op'.g, op'.attr) = op'.data
          /\ \A b \in DOMAIN geom[op'.g].buf \ {op'.attr} :
                geom'[op'.g].buf[b] = geom[op'.g].buf[b]
    /\ (op'.name \in Kinds /\ outcome' = "ok") =>
          \A a \in DOMAIN op'.args :
             (/\ op'.args[a] # None
              /\ op'.args[a].shape = geom'[op'.g].buf[a].shape
              /\ ok(op'.args[a])) =>
                ReadBackIn(After, op'.g, a) = op'.args[a]

AnyData(arr) == TRUE

C8_Original == [][RoundTrip(AnyData)]_vars

(***************************************************************************)
(* C8, amended: the same for data whose values float32 holds exactly (the  *)
(* buffers are float32, and a set casts what it is given).                 *)
(***************************************************************************)
\* k half-units is a float32: a 24 bit significand times a power of two
IsFloat32(k) == \E e \in 0..8 : k % (2^e) = 0 /\ Abs(k) <= (2^24) * (2^e)

AllFloat32(arr) == \A i \in 1..Len(arr.data) : IsFloat32(arr.data[i])

C8_RoundTrip == [][RoundTrip(AllFloat32)]_vars

\* a Mesh constructed with positions, and a set of its whole color
C8_Witness ==
    /\ op.name = "set" /\ outcome = "ok" /\ op.key = AllKey
    /\ geom[op.g].kind = "Mesh" /\ op.attr = "color"
    /\ op.data = OddRamp(<<3, 3>>)
    /\ ReadBack(op.g, "color") = OddRamp(<<3, 3>>)
    /\ ReadBack(op.g, "position") = Ramp(<<MaxN, 3>>)

(***************************************************************************)
(* C11: a geometry is in the scene's list exactly once when its            *)
(* construction has succeeded; only its remove() changes how often it is   *)
(* in the list; a remove() that returns leaves it in the list zero times   *)
(* and leaves the other geometries of the list, and their order, as they   *)
(* were; no other operation changes the list.                              *)
(***************************************************************************)
Count(s, x) == Cardinality({i \in 1..Len(s) : s[i] = x})

Without(s, x) == SelectSeq(s, LAMBDA e : e # x)

Hooks == {"remove", "enable", "disable", "update", "setMaterial", "setOutlineMaterial"}

C12_UseAfterRemove ==
    [][(/\ op'.name \in {"remove", "enable", "disable", "set", "set_material"}
        /\ Count(scene, op'.g) = 0) =>
          /\ outcome' = "UseAfterRemove"
          /\ {i \in 1..Len(log') : log'[i].call \in Hooks} = {}
          /\ scene' = scene]_vars

(***************************************************************************)
(* C13: enable() and disable() change no attribute buffer, make no         *)
(* update() call and leave the scene's list as it was, and a second call   *)
(* of the same leaves the state the first one left.                        *)
(***************************************************************************)
Again(name, g, late) ==
    IF name = "enable" THEN GeometryEnable(After, g, late)
    ELSE GeometryDisable(After, g, late)

C13_Toggles ==
    [][op'.name \in {"enable", "disable"} =>
          /\ Bufs' = Bufs
          /\ scene' = scene
          /\ {i \in 1..Len(log') : log'[i].call = "update"} = {}
          /\ geom'[op'.g].enabled =
                IF geom[op'.g].removed THEN geom[op'.g].enabled ELSE op'.name = "enable"
          /\ \A late \in Lates :
                /\ Again(op'.name, op'.g, late).geom = geom'
                /\ Again(op'.name, op'.g, late).scene = scene']_vars

\* enable() of a geometry that was written to, one of two in the scene
C13_Witness ==
    /\ op.name = "enable" /\ outcome = "ok"
    /\ geom[op.g].enabled /\ ~geom[op.g].removed
    /\ geom[op.g].kind = "Sphere"
    /\ geom[op.g].buf["radius"].data[1] = 1
    /\ Len(scene) = 2

(***************************************************************************)
(* C14, as claimed: Cylinder.get_extents returns, per axis, the least of   *)
(* (end point coordinate - radius) and the greatest of (end point          *)
(* coordinate + radius) over all cylinders and both end points, leaves all *)
(* buffers as they were and makes no update() call.                        *)
(***************************************************************************)
SetMin(S) == CHOOSE m \in S : \A x \in S : m <= x

SetMax(S) == CHOOSE m \in S : \A x \in S : m >= x

\* coordinate k of end point e of cylinder i, and the radius of cylinder i
Pt(g, i, e, k) == geom[g].buf["points"].data[6 * (i - 1) + 3 * (e - 1) + k]

Rad(g, i) == geom[g].buf["radius"].data[i]

Exact(k) == k

CylinderBox(g, round(_)) ==
    LET Ends == (1..geom[g].N) \X {1, 2}
    IN  Arr(<<2, 3>>,
            [p \in 1..6 |->
                LET k == ((p - 1) % 3) + 1
                IN  IF p <= 3
                    THEN SetMin({round(Pt(g, c[1], c[2], k) - Rad(g, c[1])) : c \in Ends})
                    ELSE SetMax({round(Pt(g, c[1], c[2], k) + Rad(g, c[1])) : c \in Ends})])

CylinderExtentsAre(round(_)) ==
    (op'.name = "get_extents" /\ geom[op'.g].kind = "Cylinder") =>
        /\ Bufs' = Bufs
        /\ {i \in 1..Len(log') : log'[i].call = "update"} = {}
        /\ geom[op'.g].N >= 1 =>
              (outcome' = "ok" /\ ret'.arr = CylinderBox(op'.g, round))

C14_Original == [][CylinderExtentsAre(Exact)]_vars

(***************************************************************************)
(* C14, amended: the same with the differences and sums as float32 has     *)
(* them: coordinate - radius and coordinate + radius rounded to float32.   *)
(***************************************************************************)
C14_Extents == [][CylinderExtentsAre(Float32)]_vars

\* the cylinder from (0, 0, 0) to (1, 0, 0) with radius 0.5
C14_Witness ==
    /\ op.name = "get_extents" /\ outcome = "ok"
    /\ geom[op.g].buf["points"] = Segment
    /\ geom[op.g].buf["radius"].data = <<1>>
    /\ ret.arr = Arr(<<2, 3>>, <<-1, -1, -1, 3, 1, 1>>)

(***************************************************************************)
(* C15: Mesh.get_extents returns, for each axis k, (least coordinate k of  *)
(* the vertices) + (least coordinate k of the positions) and (greatest     *)
(* coordinate k of the vertices) + (greatest coordinate k of the           *)
(* positions).  (The code takes the least and the greatest over all three  *)
(* coordinates of the vertices.)                                           *)
(***************************************************************************)
MeshBox(g) ==
    LET v   == geom[g].vertices
        pos == geom[g].buf["position"]
        V(k) == {v.data[3 * (i - 1) + k] : i \in 1..v.shape[1]}
        P(k) == {pos.data[3 * (i - 1) + k] : i \in 1..pos.shape[1]}
    IN  Arr(<<2, 3>>,
            [p \in 1..6 |->
                LET k == ((p - 1) % 3) + 1
                IN  IF p <= 3 THEN Float32(SetMin(V(k)) + SetMin(P(k)))
                    ELSE Float32(SetMax(V(k)) + SetMax(P(k)))])

C15_MeshExtents ==
    [][(/\ op'.name = "get_extents" /\ geom[op'.g].kind = "Mesh"
        /\ geom[op'.g].N >= 1 /\ geom[op'.g].vertices.shape[1] >= 1) =>
          (outcome' = "ok" /\ ret'.arr = MeshBox(op'.g))]_vars

(***************************************************************************)
(* C16: in every successful construction, of a Box too, the native         *)
(* geometry is created first, then come all the writes to the attribute    *)
(* buffers, and the append to the scene's list comes after the last of     *)
(* them.  (Box.__init__ writes its points, radius and color after          *)
(* Cylinder.__init__ has appended the Box.)                                *)
(***************************************************************************)
C16_ConstructionOrder ==
    (op.name \in Kinds /\ outcome = "ok") =>
        /\ log[1].call = "create"
        /\ Cardinality(AllCalls("append")) = 1
        /\ \A i \in AllCalls("append") : \A j \in 1..Len(log) :
              log[j].call \in {"map", "unmap", "update"} => j < i

(***************************************************************************)
(* C17: in every operation, a buffer is mapped only while it is not        *)
(* mapped, and update() is called only while no buffer of the geometry is  *)
(* mapped.  (A set or get that raises leaves its buffer mapped, and the    *)
(* next operation maps it again.)                                          *)
(***************************************************************************)
\* whether buffer attr of geometry g is mapped just before call i of the
\* log lg of an operation that started in the current state
Open(lg, i, g, attr) ==
    LET prev == {j \in 1..(i - 1) :
                    lg[j].g = g /\ lg[j].attr = attr /\ lg[j].call \in {"map", "unmap"}}
    IN  IF prev = {} THEN g \in DOMAIN geom /\ geom[g].mapped[attr]
        ELSE lg[SetMax(prev)].call = "map"

C17_MapScopes ==
    [][\A i \in 1..Len(log') :
          /\ log'[i].call = "map" => ~Open(log', i, log'[i].g, log'[i].attr)
          /\ log'[i].call = "update" =>
                \A a \in DOMAIN geom'[log'[i].g].mapped : ~Open(log', i, log'[i].g, a)]_vars

(***************************************************************************)
(* C18: a Cylinder, Sphere, Polygon, Mesh or ConvexPolyhedron constructed  *)
(* without N and without the argument N is taken from (points, position)   *)
(* fails (TypeError: len() of None) before anything is made: no native     *)
(* geometry, no backend call, no write, the scene's list as it was.        *)
(***************************************************************************)
Sized(kind) == IF kind = "Cylinder" THEN "points" ELSE "position"

C18_NoSize ==
    [][(/\ op'.name \in Kinds \ {"Box"}
        /\ op'.N = <<>>
        /\ op'.args[Sized(op'.name)] = None) =>
          /\ outcome' = "TypeError"
          /\ geom' = geom
          /\ scene' = scene
          /\ log' = <<>>]_vars

\* a Mesh given colors but neither N nor positions
C18_Witness ==
    /\ op.name = "Mesh" /\ op.N = <<>>
    /\ op.args["position"] = None /\ op.args["color"] # None
    /\ outcome = "TypeError"
    /\ geom = <<>> /\ scene = <<>> /\ log = <<>>

====
